---- MODULE Spec2Model ----
(***************************************************************************)
(* A model of large-steps-pytorch: the geometry helpers of                 *)
(* src/python/geometry.py (vertex welding, uniform and cotangent           *)
(* Laplacians, the system matrix I + lambda_*L, angle-weighted vertex      *)
(* normals) and the driver optimize_shape of src/main.py.                  *)
(*                                                                         *)
(* Conventions.  Tensors indexed from 0 in the source are functions on     *)
(* 0..n-1 here.  A sparse COO tensor is a record [n, coo]: its shape       *)
(* (n x n) and the list of its <<row, col, value>> entries, duplicates     *)
(* allowed until coalesce() merges them.  Real numbers are exact           *)
(* rationals <<num, den>> in lowest terms: floating-point rounding is not  *)
(* modelled.  Vertex positions are lattice points of the plane z = 0, for  *)
(* which every triangle area is rational.                                  *)
(***************************************************************************)
EXTENDS Integers, Sequences, FiniteSets, TLC

(***************************************************************************)
(* Bounds of the model.                                                    *)
(***************************************************************************)
MaxVerts == 3
MaxSteps == 2

\* Vertex positions offered to the meshes: the corners of the unit square.
Positions == {<<0, 0, 0>>, <<1, 0, 0>>, <<0, 1, 0>>, <<1, 1, 0>>}

\* Values offered for the hyper parameter lambda_.
Lambdas == {-1, 0, 2}

(***************************************************************************)
(* Exact rational arithmetic.                                              *)
(***************************************************************************)
Abs(x) == IF x < 0 THEN -x ELSE x

RECURSIVE GCD(_, _)
GCD(a, b) == IF b = 0 THEN a ELSE GCD(b, a % b)

Rat(n, d) ==
    LET g == GCD(Abs(n), Abs(d))
        s == IF d < 0 THEN -1 ELSE 1
    IN  <<(s * n) \div g, (s * d) \div g>>

RatInt(n) == <<n, 1>>
RatZero == <<0, 1>>
RatOne == <<1, 1>>
RatAdd(a, b) == Rat(a[1] * b[2] + b[1] * a[2], a[2] * b[2])
RatNeg(a) == <<-a[1], a[2]>>
RatSub(a, b) == RatAdd(a, RatNeg(b))
RatMul(a, b) == Rat(a[1] * b[1], a[2] * b[2])
RatDiv(a, b) == Rat(a[1] * b[2], a[2] * b[1])

\* The integer square root of a perfect square.
ISqrt(n) == CHOOSE r \in 0..n : r * r = n

(***************************************************************************)
(* Vectors of R^3 with integer coordinates.                                *)
(***************************************************************************)
VSub(p, q) == <<p[1] - q[1], p[2] - q[2], p[3] - q[3]>>
VDot(p, q) == p[1] * q[1] + p[2] * q[2] + p[3] * q[3]
VCross(p, q) ==
    <<p[2] * q[3] - p[3] * q[2], p[3] * q[1] - p[1] * q[3], p[1] * q[2] - p[2] * q[1]>>
NormSq(p) == VDot(p, p)

\* Row order of torch.unique(dim=0): ascending, lexicographic.
LexLess(p, q) ==
    \/ p[1] < q[1]
    \/ p[1] = q[1] /\ p[2] < q[2]
    \/ p[1] = q[1] /\ p[2] = q[2] /\ p[3] < q[3]

Size(a) == Cardinality(DOMAIN a)

(***************************************************************************)
(* Sparse COO tensors.                                                     *)
(***************************************************************************)
\* (coo \o <<>> is coo, as a list built once.)
Sparse(n, coo) == [n |-> n, coo |-> coo \o <<>>]

\* The sum of the values of the entries lo..hi of a list of entries (exact,
\* so the grouping of the additions does not matter).
RECURSIVE ValueSum(_, _, _)
ValueSum(coo, lo, hi) ==
    IF lo > hi THEN RatZero
    ELSE IF lo = hi THEN coo[lo][3]
    ELSE RatAdd(ValueSum(coo, lo, (lo + hi) \div 2),
                ValueSum(coo, ((lo + hi) \div 2) + 1, hi))

CooSum(coo, i, j) ==
    LET hits == SelectSeq(coo, LAMBDA e : e[1] = i /\ e[2] = j)
    IN  ValueSum(hits, 1, Len(hits))

\* The value a sparse tensor holds at (i, j): the sum of its entries there.
At(S, i, j) == CooSum(S.coo, i, j)

\* The distinct pairs of a set, as a list in ascending lexicographic order.
SortedPairs(P) ==
    LET ranked == {<<p, Cardinality({q \in P : q[1] < p[1] \/ (q[1] = p[1] /\ q[2] < p[2])})>> :
                      p \in P}
    IN  [k \in 1..Cardinality(P) |-> (CHOOSE r \in ranked : r[2] = k - 1)[1]] \o <<>>

\* torch.Tensor.coalesce: one entry per index pair present, duplicates
\* summed, entries sorted by index.
coalesce(S) ==
    LET P == {<<S.coo[k][1], S.coo[k][2]>> : k \in DOMAIN S.coo}
        sorted == SortedPairs(P)
    IN  Sparse(S.n, [k \in DOMAIN sorted |->
                        <<sorted[k][1], sorted[k][2],
                          CooSum(S.coo, sorted[k][1], sorted[k][2])>>])

SparseT(S) == Sparse(S.n, [k \in DOMAIN S.coo |-> <<S.coo[k][2], S.coo[k][1], S.coo[k][3]>>])
SparseAdd(S, T) == Sparse(S.n, S.coo \o T.coo)
SparseScale(c, S) == Sparse(S.n, [k \in DOMAIN S.coo |-> <<S.coo[k][1], S.coo[k][2], RatMul(c, S.coo[k][3])>>])
SparseNeg(S) == SparseScale(RatInt(-1), S)

\* torch.sparse.sum(S, dim=0).to_dense(): the column sums.
ColSum(coo, j) ==
    LET hits == SelectSeq(coo, LAMBDA e : e[2] = j)
    IN  ValueSum(hits, 1, Len(hits))

\* The sparse diagonal tensor of a dense vector.
SparseDiag(vals) == Sparse(Size(vals), [k \in 1..Size(vals) |-> <<k - 1, k - 1, vals[k - 1]>>])

\* faces[:, cols].flatten(): face after face, the corners in the order cols.
FlattenCols(faces, cols) ==
    [m \in 1..(3 * Size(faces)) |-> faces[(m - 1) \div 3][cols[((m - 1) % 3) + 1]]] \o <<>>

(***************************************************************************)
(* src/python/geometry.py                                                  *)
(***************************************************************************)

\* torch_unique with an inverse that names, for every row, the first row of v
\* equal to it (an index into v, not into the distinct rows).
torch_unique_first_index(v) ==
    LET S == {v[i] : i \in DOMAIN v}
        values == [k \in 0..(Cardinality(S) - 1) |->
                      CHOOSE p \in S : Cardinality({q \in S : LexLess(q, p)}) = k]
    IN  [values |-> values,
         inverse |-> [i \in DOMAIN v |->
                         CHOOSE k \in DOMAIN v : v[k] = v[i] /\ \A j \in DOMAIN v : v[j] = v[i] => k <= j]]

\* torch.unique(v, dim=0, return_inverse=True): the distinct rows of v in
\* ascending lexicographic order, and for every row of v its index there.
torch_unique(v) ==
    LET S == {v[i] : i \in DOMAIN v}
        values == [k \in 0..(Cardinality(S) - 1) |->
                      CHOOSE p \in S : Cardinality({q \in S : LexLess(q, p)}) = k]
    IN  [values |-> values,
         inverse |-> [i \in DOMAIN v |-> CHOOSE k \in DOMAIN values : values[k] = v[i]]]

\* remove_duplicates keeping the distinct rows in the order of their first
\* occurrence in v instead of sorting them.
remove_duplicates_unsorted(v, f) ==
    LET firsts == {i \in DOMAIN v : \A j \in DOMAIN v : v[j] = v[i] => i <= j}
        unique_verts == [k \in 0..(Cardinality(firsts) - 1) |->
                            v[CHOOSE i \in firsts : Cardinality({j \in firsts : j < i}) = k]]
        inverse == [i \in DOMAIN v |-> CHOOSE k \in DOMAIN unique_verts : unique_verts[k] = v[i]]
        new_faces == [k \in DOMAIN f |-> [c \in 0..2 |-> inverse[f[k][c]]]]
    IN  [unique_verts |-> unique_verts, new_faces |-> new_faces, inverse |-> inverse]

remove_duplicates(v, f) ==
    LET u == torch_unique(v)
        unique_verts == u.values
        inverse == u.inverse
        new_faces == [k \in DOMAIN f |-> [c \in 0..2 |-> inverse[f[k][c]]]]
    IN  [unique_verts |-> unique_verts, new_faces |-> new_faces, inverse |-> inverse]

\* 16 * s(s-A)(s-B)(s-C), Heron's product, from the squared side lengths.
Heron16(A2, B2, C2) ==
    2 * (A2 * B2 + B2 * C2 + C2 * A2) - A2 * A2 - B2 * B2 - C2 * C2

\* 1 / sqrt(1e-12): the floor clamp_(min=1e-12) puts under the area.
AreaFloorInv == 1000000

\* (s(s-A)(s-B)(s-C)).clamp_(min=1e-12).sqrt()
heron_area(A2, B2, C2) ==
    LET h == Heron16(A2, B2, C2)
    IN  IF h <= 0 THEN Rat(1, AreaFloorInv) ELSE Rat(ISqrt(h), 4)

\* The three cotangents of face k, the columns of cot after cot /= 4.0.
face_cot(verts, faces, k) ==
    LET v0 == verts[faces[k][0]]
        v1 == verts[faces[k][1]]
        v2 == verts[faces[k][2]]
        A2 == NormSq(VSub(v1, v2))
        B2 == NormSq(VSub(v0, v2))
        C2 == NormSq(VSub(v0, v1))
        area == heron_area(A2, B2, C2)
        cota == RatDiv(RatInt(B2 + C2 - A2), area)
        cotb == RatDiv(RatInt(A2 + C2 - B2), area)
        cotc == RatDiv(RatInt(A2 + B2 - C2), area)
    IN  <<RatDiv(cota, RatInt(4)), RatDiv(cotb, RatInt(4)), RatDiv(cotc, RatInt(4))>>

\* laplacian_cot with the diagonal taken from the column sums of L before
\* L += L.t().
laplacian_cot_early_diagonal(verts, faces) ==
    LET V == Size(verts)
        F == Size(faces)
        ii == FlattenCols(faces, <<1, 2, 0>>)
        jj == FlattenCols(faces, <<2, 0, 1>>)
        L0 == Sparse(V, [m \in 1..(3 * F) |->
                  <<ii[m], jj[m], face_cot(verts, faces, (m - 1) \div 3)[((m - 1) % 3) + 1]>>])
        vals == [j \in 0..(V - 1) |-> ColSum(L0.coo, j)]
        Lsym == SparseAdd(L0, SparseT(L0))
    IN  SparseAdd(SparseDiag(vals), SparseNeg(Lsym))

laplacian_cot(verts, faces) ==
    LET V == Size(verts)
        F == Size(faces)
        ii == FlattenCols(faces, <<1, 2, 0>>)
        jj == FlattenCols(faces, <<2, 0, 1>>)
        L0 == Sparse(V, [m \in 1..(3 * F) |->
                  <<ii[m], jj[m], face_cot(verts, faces, (m - 1) \div 3)[((m - 1) % 3) + 1]>>])
        Lsym == SparseAdd(L0, SparseT(L0))
        vals == [j \in 0..(V - 1) |-> ColSum(Lsym.coo, j)]
    IN  SparseAdd(SparseDiag(vals), SparseNeg(Lsym))

\* adjacency without the reversed half: unique(stack([ii, jj])).
adjacency_directed(faces) ==
    LET ii == FlattenCols(faces, <<1, 2, 0>>)
        jj == FlattenCols(faces, <<2, 0, 1>>)
    IN  SortedPairs({<<ii[m], jj[m]>> : m \in DOMAIN ii})

\* adjacency without .unique(dim=1): every column of the stack.
adjacency_repeated(faces) ==
    LET ii == FlattenCols(faces, <<1, 2, 0>>)
        jj == FlattenCols(faces, <<2, 0, 1>>)
        rows0 == ii \o jj
        rows1 == jj \o ii
    IN  [m \in DOMAIN rows0 |-> <<rows0[m], rows1[m]>>] \o <<>>

\* The columns of stack([cat(ii, jj), cat(jj, ii)]).unique(dim=1).
adjacency(faces) ==
    LET ii == FlattenCols(faces, <<1, 2, 0>>)
        jj == FlattenCols(faces, <<2, 0, 1>>)
        rows0 == ii \o jj
        rows1 == jj \o ii
    IN  SortedPairs({<<rows0[m], rows1[m]>> : m \in DOMAIN rows0})

laplacian_uniform(verts, faces) ==
    LET V == Size(verts)
        adj == adjacency(faces)
        off == [k \in DOMAIN adj |-> <<adj[k][1], adj[k][2], RatInt(-1)>>]
        diag == [k \in DOMAIN adj |-> <<adj[k][1], adj[k][1], RatInt(1)>>]
    IN  coalesce(Sparse(V, off \o diag))

\* compute_matrix has no check of lambda_ and no raise: it returns for
\* every lambda_.
compute_matrix_raises(verts, faces, lambda_, cotan) == FALSE

compute_matrix(verts, faces, lambda_, cotan) ==
    LET L == IF cotan THEN laplacian_cot(verts, faces) ELSE laplacian_uniform(verts, faces)
        V == Size(verts)
        eye == SparseDiag([i \in 0..(V - 1) |-> RatOne])
    IN  coalesce(SparseAdd(eye, SparseScale(RatInt(lambda_), L)))

\* c / torch.norm(c, dim=0) for c = cross(v1 - v0, v2 - v0): the unit vector
\* along dir, kept as its direction (NaN when the direction is zero).
compute_face_normals(verts, faces) ==
    [k \in DOMAIN faces |->
        LET v0 == verts[faces[k][0]]
            v1 == verts[faces[k][1]]
            v2 == verts[faces[k][2]]
        IN  [dir |-> VCross(VSub(v1, v0), VSub(v2, v0))]]

\* torch.norm(d)^2 for the 3 x F tensor d of the edges that leave corner i
\* towards corner (i + step) % 3: one norm over the whole tensor.
RECURSIVE edge_norm_sq(_, _, _, _, _)
edge_norm_sq(verts, faces, i, step, n) ==
    IF n = 0 THEN 0
    ELSE NormSq(VSub(verts[faces[n - 1][(i + step) % 3]], verts[faces[n - 1][i]]))
         + edge_norm_sq(verts, faces, i, step, n - 1)

\* The argument torch.sum(d0*d1, 0) hands to safe_acos for corner i of face
\* k: a real number, kept as its sign and its square (NaN when a norm is 0).
corner_cos(verts, faces, i, k) ==
    LET e0 == VSub(verts[faces[k][(i + 1) % 3]], verts[faces[k][i]])
        e1 == VSub(verts[faces[k][(i + 2) % 3]], verts[faces[k][i]])
        n0 == edge_norm_sq(verts, faces, i, 1, Size(faces))
        n1 == edge_norm_sq(verts, faces, i, 2, Size(faces))
        d == VDot(e0, e1)
    IN  IF n0 * n1 = 0 THEN [nan |-> TRUE, sgn |-> 0, sq |-> RatZero]
        ELSE [nan |-> FALSE,
              sgn |-> IF d > 0 THEN 1 ELSE IF d < 0 THEN -1 ELSE 0,
              sq |-> Rat(d * d, n0 * n1)]

\* The (corner, face) pairs whose index_add_ lands on vertex x, in the order
\* of the loop: corner after corner, face after face.
RECURSIVE corner_terms(_, _, _, _, _)
corner_terms(verts, faces, face_normals, x, m) ==
    IF m = 0 THEN <<>>
    ELSE LET i == (m - 1) \div Size(faces)
             k == (m - 1) % Size(faces)
             rest == corner_terms(verts, faces, face_normals, x, m - 1)
         IN  IF faces[k][i] = x
             THEN Append(rest, [face |-> k, corner |-> i,
                                normal |-> face_normals[k],
                                cos |-> corner_cos(verts, faces, i, k)])
             ELSE rest

\* Per vertex, normalize(sum of face_normal * acos(cos)) over its terms,
\* kept as the list of the terms.
compute_vertex_normals(verts, faces, face_normals) ==
    [x \in DOMAIN verts |-> corner_terms(verts, faces, face_normals, x, 3 * Size(faces))]


(***************************************************************************)
(* parameterize.py is not among the sources: to_differential and           *)
(* from_differential follow the specification (u = M @ v, v = solve(M, u)).*)
(***************************************************************************)
\* Row i of the sparse matrix times column c of the dense x.
RowDot(coo, i, x, c) ==
    LET hits == SelectSeq(coo, LAMBDA e : e[1] = i)
        products == [k \in DOMAIN hits |->
                        <<i, hits[k][2], RatMul(hits[k][3], RatInt(x[hits[k][2]][c]))>>] \o <<>>
    IN  ValueSum(products, 1, Len(products))

to_differential(M, v) ==
    [i \in DOMAIN v |-> <<RowDot(M.coo, i, v, 1), RowDot(M.coo, i, v, 2), RowDot(M.coo, i, v, 3)>>]

\* The coordinates the positions are made of.
Coords == UNION {{p[1], p[2], p[3]} : p \in Positions}

from_differential(M, u) ==
    LET col(c) == CHOOSE x \in [DOMAIN u -> Coords] :
                      \A i \in DOMAIN u :
                          RowDot(M.coo, i, [j \in DOMAIN u |-> <<x[j], x[j], x[j]>>], 1) = u[i][c]
        c1 == col(1)
        c2 == col(2)
        c3 == col(3)
    IN  [i \in DOMAIN u |-> <<c1[i], c2[i], c3[i]>>]

(***************************************************************************)
(* State.  call and ret: a call of a function of geometry.py and what it   *)
(* returned.  The others are the locals of optimize_shape (src/main.py),   *)
(* pc its position, and three observations of its run: how many times it   *)
(* built the system matrix, the arguments of the last from_differential,   *)
(* and what the current iteration has done so far.                         *)
(***************************************************************************)
VARIABLES call, ret,
          pc, params, v_src, f_src, v_unique, f_unique, duplicate_idx,
          L, M, u_unique, tr, v_opt, n_opt, rendered, it,
          builds, solved, events

geom_vars == <<call, ret>>
scene_vars == <<params, v_src, f_src>>
weld_vars == <<f_unique, duplicate_idx>>
out_vars == <<v_opt, n_opt, rendered>>
opt_vars == <<pc, params, v_src, f_src, v_unique, f_unique, duplicate_idx,
              L, M, u_unique, tr, v_opt, n_opt, rendered, it, builds, solved, events>>
vars == <<call, ret, pc, params, v_src, f_src, v_unique, f_unique, duplicate_idx,
          L, M, u_unique, tr, v_opt, n_opt, rendered, it, builds, solved, events>>

\* A local that has not been assigned yet.
Unset == <<>>
NoMatrix == Sparse(0, <<>>)

(***************************************************************************)
(* The meshes offered to the functions of geometry.py.                     *)
(***************************************************************************)
\* Numbers of faces of the meshes.
FaceCounts == {1, 2}

VertArrays(n) == [0..(n - 1) -> Positions]
FaceSet(n) == [0..2 -> 0..(n - 1)]
FaceLists(n) == UNION {[0..(F - 1) -> FaceSet(n)] : F \in FaceCounts}

\* The meshes remove_duplicates hands on: distinct rows in ascending order.
IsWelded(v) == \A i, j \in DOMAIN v : i < j => LexLess(v[i], v[j])

Args(fn, v, f, l, c) ==
    [fn |-> fn, verts |-> v, faces |-> f, lambda_ |-> l, cotan |-> c, outcome |-> "returned"]

OptIdle ==
    /\ pc = "idle" /\ params = Unset /\ v_src = Unset /\ f_src = Unset
    /\ v_unique = Unset /\ f_unique = Unset /\ duplicate_idx = Unset
    /\ L = NoMatrix /\ M = NoMatrix /\ u_unique = Unset /\ tr = Unset
    /\ v_opt = Unset /\ n_opt = Unset /\ rendered = Unset /\ it = 0
    /\ builds = 0 /\ solved = Unset /\ events = Unset

(***************************************************************************)
(* SpecWeld: remove_duplicates applied to any mesh.                        *)
(***************************************************************************)
WeldInit ==
    /\ call = Args("idle", Unset, Unset, 0, FALSE)
    /\ ret = Unset
    /\ OptIdle

PickRawMesh ==
    /\ call.fn = "idle"
    /\ \E n \in 1..MaxVerts : \E v \in VertArrays(n), f \in FaceLists(n) :
           call' = Args("none", v, f, 0, FALSE)
    /\ UNCHANGED ret
    /\ UNCHANGED opt_vars

CallRemoveDuplicates ==
    /\ call.fn = "none"
    /\ call' = [call EXCEPT !.fn = "remove_duplicates"]
    /\ ret' = remove_duplicates(call.verts, call.faces)
    /\ UNCHANGED opt_vars

WeldNext == PickRawMesh \/ CallRemoveDuplicates

SpecWeld == WeldInit /\ [][WeldNext]_vars

(***************************************************************************)
(* SpecGeometry: the Laplacians, the system matrix and the vertex normals  *)
(* applied to any welded mesh.                                             *)
(***************************************************************************)
GeomInit ==
    /\ call = Args("idle", Unset, Unset, 0, FALSE)
    /\ ret = Unset
    /\ OptIdle

PickWeldedMesh ==
    /\ call.fn = "idle"
    /\ \E n \in 1..MaxVerts : \E v \in VertArrays(n) :
           /\ IsWelded(v)
           /\ \E f \in FaceLists(n) : call' = Args("none", v, f, 0, FALSE)
    /\ UNCHANGED ret
    /\ UNCHANGED opt_vars

CallLaplacianUniform ==
    /\ call.fn = "none"
    /\ call' = [call EXCEPT !.fn = "laplacian_uniform"]
    /\ ret' = laplacian_uniform(call.verts, call.faces)
    /\ UNCHANGED opt_vars

CallLaplacianCot ==
    /\ call.fn = "none"
    /\ call' = [call EXCEPT !.fn = "laplacian_cot"]
    /\ ret' = laplacian_cot(call.verts, call.faces)
    /\ UNCHANGED opt_vars

CallComputeMatrix ==
    /\ call.fn = "none"
    /\ \E l \in Lambdas, c \in BOOLEAN :
        IF compute_matrix_raises(call.verts, call.faces, l, c)
        THEN /\ call' = [call EXCEPT !.fn = "compute_matrix", !.lambda_ = l, !.cotan = c,
                                     !.outcome = "raised"]
             /\ ret' = Unset
        ELSE /\ call' = [call EXCEPT !.fn = "compute_matrix", !.lambda_ = l, !.cotan = c]
             /\ ret' = compute_matrix(call.verts, call.faces, l, c)
    /\ UNCHANGED opt_vars

CallVertexNormals ==
    /\ call.fn = "none"
    /\ call' = [call EXCEPT !.fn = "compute_vertex_normals"]
    /\ ret' = compute_vertex_normals(call.verts, call.faces,
                                     compute_face_normals(call.verts, call.faces))
    /\ UNCHANGED opt_vars

GeomNext ==
    \/ PickWeldedMesh
    \/ CallLaplacianUniform
    \/ CallLaplacianCot
    \/ CallComputeMatrix
    \/ CallVertexNormals

SpecGeometry == GeomInit /\ [][GeomNext]_vars

(***************************************************************************)
(* Spec: optimize_shape (src/main.py).                                     *)
(***************************************************************************)
\* A tuple as a tensor indexed from 0.
Arr(s) == [i \in 0..(Len(s) - 1) |-> s[i + 1]]

\* The source meshes load_scene offers: a triangle whose vertices are not
\* listed in ascending order; a square cut along its diagonal, each
\* triangle with vertices of its own, so that the two ends of the diagonal
\* are listed twice; a two-sided triangle with one corner listed twice.
Scenes ==
    { [v |-> Arr(<< <<1, 0, 0>>, <<0, 0, 0>>, <<0, 1, 0>> >>),
       f |-> Arr(<< Arr(<<0, 1, 2>>) >>)],
      [v |-> Arr(<< <<0, 0, 0>>, <<1, 0, 0>>, <<1, 1, 0>>,
                    <<0, 0, 0>>, <<1, 1, 0>>, <<0, 1, 0>> >>),
       f |-> Arr(<< Arr(<<0, 1, 2>>), Arr(<<3, 4, 5>>) >>)],
      [v |-> Arr(<< <<0, 0, 0>>, <<1, 0, 0>>, <<0, 1, 0>>, <<0, 0, 0>> >>),
       f |-> Arr(<< Arr(<<0, 1, 2>>), Arr(<<3, 2, 1>>) >>)] }

\* Values offered for params["lambda"] and for the translation tr.
OptLambdas == {0, 1}
Translations == {<<0, 0, 0>>, <<1, 0, 0>>}

\* index_rows that hands back x itself, without picking rows.
index_rows_skipped(x, idx) == x

\* x[idx]: the rows of x picked by idx.
index_rows(x, idx) == [i \in DOMAIN idx |-> x[idx[i]]]

\* M = compute_matrix(v_unique, f_unique, lambda_): cotan is not handed
\* on, so compute_matrix runs with its default, cotan=False.
system_matrix(v, f, lambda_, cotan) == compute_matrix(v, f, lambda_, FALSE)

\* get_cartesian solving for the positions it already holds instead of the
\* current u_unique.
get_cartesian_stale(smooth, m, u, v) ==
    IF smooth
    THEN [v_unique |-> from_differential(m, to_differential(m, v)),
          solved |-> <<m, to_differential(m, v)>>]
    ELSE [v_unique |-> v, solved |-> Unset]

\* if smooth: v_unique = from_differential(M, u_unique).  Returns the new
\* v_unique and the arguments of the call.
get_cartesian(smooth, m, u, v) ==
    IF smooth THEN [v_unique |-> from_differential(m, u), solved |-> <<m, u>>]
    ELSE [v_unique |-> v, solved |-> Unset]

\* tr + v_opt
translate(t, v) == [i \in DOMAIN v |-> <<t[1] + v[i][1], t[2] + v[i][2], t[3] + v[i][3]>>]

OptInit ==
    /\ call = Args("idle", Unset, Unset, 0, FALSE) /\ ret = Unset
    /\ pc = "load"
    /\ \E smooth \in BOOLEAN, cotan \in BOOLEAN, l \in OptLambdas, steps \in 0..MaxSteps :
           params = [smooth |-> smooth, cotan |-> cotan, lambda_ |-> l, steps |-> steps]
    /\ \E s \in Scenes : v_src = s.v /\ f_src = s.f
    /\ v_unique = Unset /\ f_unique = Unset /\ duplicate_idx = Unset
    /\ L = NoMatrix /\ M = NoMatrix /\ u_unique = Unset /\ tr = Unset
    /\ v_opt = Unset /\ n_opt = Unset /\ rendered = Unset /\ it = 0
    /\ builds = 0 /\ solved = Unset /\ events = <<>>

\* v_unique, f_unique, duplicate_idx = remove_duplicates(v_src, f_src)
Weld ==
    /\ pc = "load"
    /\ LET r == remove_duplicates(v_src, f_src)
       IN  /\ v_unique' = r.unique_verts
           /\ f_unique' = r.new_faces
           /\ duplicate_idx' = r.inverse
    /\ pc' = "laplacian"
    /\ UNCHANGED <<geom_vars, scene_vars, L, M, u_unique, tr, out_vars, it, builds, solved, events>>

\* The laplacian of the regularization term.
BuildLaplacian ==
    /\ pc = "laplacian"
    /\ L' = IF params.cotan THEN laplacian_cot(v_unique, f_unique)
            ELSE laplacian_uniform(v_unique, f_unique)
    /\ pc' = "parameterize"
    /\ UNCHANGED <<geom_vars, scene_vars, v_unique, weld_vars, M, u_unique, tr, out_vars, it,
                   builds, solved, events>>

\* The optimized variables: tr, and u_unique (smooth) or v_unique.
Parameterize ==
    /\ pc = "parameterize"
    /\ tr' = <<0, 0, 0>>
    /\ IF params.smooth
       THEN LET m == system_matrix(v_unique, f_unique, params.lambda_, params.cotan)
            IN  /\ M' = m
                /\ u_unique' = to_differential(m, v_unique)
                /\ builds' = builds + 1
       ELSE UNCHANGED <<M, u_unique, builds>>
    /\ it' = 0
    /\ pc' = "loop"
    /\ UNCHANGED <<geom_vars, scene_vars, v_unique, weld_vars, L, out_vars, solved, events>>

\* while it < steps or (t - t0) < opt_time, with opt_time left at its default
\* of -1: get cartesian coordinates.
GetCartesian ==
    /\ pc = "loop"
    /\ it < params.steps
    /\ LET r == get_cartesian(params.smooth, M, u_unique, v_unique)
       IN  /\ v_unique' = r.v_unique
           /\ solved' = r.solved
    /\ events' = IF params.smooth THEN <<"from_differential">> ELSE <<>>
    /\ pc' = "gather"
    /\ UNCHANGED <<geom_vars, scene_vars, weld_vars, L, M, u_unique, tr, out_vars, it, builds>>

\* The mesh with the duplicates, and its vertex normals.
Gather ==
    /\ pc = "gather"
    /\ v_opt' = index_rows(v_unique, duplicate_idx)
    /\ LET face_normals == compute_face_normals(v_unique, f_unique)
           n_unique == compute_vertex_normals(v_unique, f_unique, face_normals)
       IN  n_opt' = index_rows(n_unique, duplicate_idx)
    /\ events' = Append(events, "normals")
    /\ pc' = "render"
    /\ UNCHANGED <<geom_vars, scene_vars, v_unique, weld_vars, L, M, u_unique, tr, rendered, it,
                   builds, solved>>

\* opt_imgs = renderer.render(tr + v_opt, n_opt, f_src)
Render ==
    /\ pc = "render"
    /\ rendered' = [v |-> translate(tr, v_opt), n |-> n_opt, f |-> f_src]
    /\ events' = Append(events, "render")
    /\ pc' = "step"
    /\ UNCHANGED <<geom_vars, scene_vars, v_unique, weld_vars, L, M, u_unique, tr, v_opt, n_opt, it,
                   builds, solved>>

\* opt.step(): the optimizer writes new values into the optimized
\* variables; here it moves one vertex of the mesh, and tr.  it += 1.
OptStep ==
    /\ pc = "step"
    /\ \E x \in DOMAIN v_unique, p \in Positions :
           LET w == [v_unique EXCEPT ![x] = p]
           IN  IF params.smooth
               THEN u_unique' = to_differential(M, w) /\ UNCHANGED v_unique
               ELSE v_unique' = w /\ UNCHANGED u_unique
    /\ tr' \in Translations
    /\ it' = it + 1
    /\ events' = Append(events, "step")
    /\ pc' = "loop"
    /\ UNCHANGED <<geom_vars, scene_vars, weld_vars, L, M, out_vars, builds, solved>>

\* The loop ends; result_dict is returned.
Finish ==
    /\ pc = "loop"
    /\ ~(it < params.steps)
    /\ pc' = "done"
    /\ UNCHANGED <<geom_vars, scene_vars, v_unique, weld_vars, L, M, u_unique, tr, out_vars, it,
                   builds, solved, events>>

Next ==
    \/ Weld
    \/ BuildLaplacian
    \/ Parameterize
    \/ GetCartesian
    \/ Gather
    \/ Render
    \/ OptStep
    \/ Finish

Spec == OptInit /\ [][Next]_vars

(***************************************************************************)
(* Vocabulary of the properties.                                           *)
(***************************************************************************)
Range(a) == {a[i] : i \in DOMAIN a}

Identity(a) == [i \in DOMAIN a |-> i]

Distinct(v) == \A i, j \in DOMAIN v : i # j => v[i] # v[j]

\* The sum of row i of the matrix S.
RowSum(S, i) ==
    LET hits == SelectSeq(S.coo, LAMBDA e : e[1] = i)
    IN  ValueSum(hits, 1, Len(hits))

\* Vertices i and j are both corners of at least one triangle.
Adjacent(faces, i, j) ==
    \E k \in DOMAIN faces : \E a, b \in 0..2 :
        a # b /\ faces[k][a] = i /\ faces[k][b] = j

\* The control points of optimize_shape from the loop head onwards.
LoopPcs == {"loop", "gather", "render", "step", "done"}

(***************************************************************************)
(* remove_duplicates (SpecWeld).                                           *)
(***************************************************************************)
\* C3: remove_duplicates returns every distinct position of v exactly once,
\* an inverse with unique_verts[inverse[i]] = v[i] for every original vertex
\* i, and faces re-indexed through it: new_faces[k][c] = inverse[f[k][c]].
C3_WeldReindexes ==
    call.fn = "remove_duplicates" =>
        LET v == call.verts
            f == call.faces
        IN  /\ Range(ret.unique_verts) = Range(v)
            /\ Distinct(ret.unique_verts)
            /\ DOMAIN ret.inverse = DOMAIN v
            /\ \A i \in DOMAIN v :
                   /\ ret.inverse[i] \in DOMAIN ret.unique_verts
                   /\ ret.unique_verts[ret.inverse[i]] = v[i]
            /\ DOMAIN ret.new_faces = DOMAIN f
            /\ \A k \in DOMAIN f : \A c \in 0..2 :
                   ret.new_faces[k][c] = ret.inverse[f[k][c]]

\* A mesh with a repeated position, listed out of order, has been welded.
C3_Witness ==
    /\ call.fn = "remove_duplicates"
    /\ Size(call.verts) = 3
    /\ Size(ret.unique_verts) = 2
    /\ call.verts[0] = call.verts[2]
    /\ LexLess(call.verts[1], call.verts[0])
    /\ Size(call.faces) = 2

\* C4 as stated: welding a mesh whose positions are pairwise distinct, in
\* whatever order they are listed, returns v, f and the identity.
C4_NoOpInAnyOrder ==
    (call.fn = "remove_duplicates" /\ Distinct(call.verts)) =>
        /\ ret.unique_verts = call.verts
        /\ ret.new_faces = call.faces
        /\ ret.inverse = Identity(call.verts)

\* C4 amended: welding a mesh whose positions are pairwise distinct returns
\* the same positions in ascending lexicographic order, with inverse the
\* permutation that sorts them; it returns v, f and the identity exactly
\* when v is already listed in ascending lexicographic order.
C4_NoOpWhenSorted ==
    (call.fn = "remove_duplicates" /\ Distinct(call.verts)) =>
        /\ Size(ret.unique_verts) = Size(call.verts)
        /\ IsWelded(ret.unique_verts)
        /\ Range(ret.inverse) = DOMAIN call.verts
        /\ \A i \in DOMAIN call.verts :
               /\ ret.inverse[i] \in DOMAIN ret.unique_verts
               /\ ret.unique_verts[ret.inverse[i]] = call.verts[i]
        /\ ( ( /\ ret.unique_verts = call.verts
               /\ ret.new_faces = call.faces
               /\ ret.inverse = Identity(call.verts) )
             <=> IsWelded(call.verts) )

\* A mesh of three distinct positions listed out of order has been welded,
\* and came back reordered.
C4_Witness ==
    /\ call.fn = "remove_duplicates"
    /\ Size(call.verts) = 3
    /\ Distinct(call.verts)
    /\ ~IsWelded(call.verts)
    /\ ret.unique_verts # call.verts
    /\ ret.inverse # Identity(call.verts)

(***************************************************************************)
(* The Laplacians, the system matrix and the vertex normals (SpecGeometry).*)
(***************************************************************************)
\* C1: for every mesh, every row of the matrix returned by laplacian_uniform
\* and of the matrix returned by laplacian_cot sums to zero: the diagonal
\* entry is minus the sum of the off-diagonal entries of its row.
C1_ZeroRowSums ==
    call.fn \in {"laplacian_uniform", "laplacian_cot"} =>
        \A i \in DOMAIN call.verts :
            /\ RowSum(ret, i) = RatZero
            /\ At(ret, i, i) = RatNeg(RatSub(RowSum(ret, i), At(ret, i, i)))

\* laplacian_cot has returned for two triangles that share an edge, with a
\* non-zero weight between two vertices.
C1_Witness ==
    /\ call.fn = "laplacian_cot"
    /\ Size(call.faces) = 2
    /\ \A k \in DOMAIN call.faces : \A a, b \in 0..2 :
           a # b => call.faces[k][a] # call.faces[k][b]
    /\ \E i, j \in DOMAIN call.verts :
           /\ i # j
           /\ Adjacent(<<call.faces[0]>>, i, j)
           /\ Adjacent(<<call.faces[1]>>, i, j)
           /\ At(ret, i, j) # RatZero
           /\ At(ret, i, i) # RatZero

\* C2: for every mesh and every lambda_ >= 0, the matrix returned by
\* compute_matrix, with repeated index pairs merged, is symmetric:
\* M[i,j] = M[j,i] for all vertices i and j.
C2_MatrixSymmetric ==
    (call.fn = "compute_matrix" /\ call.outcome = "returned" /\ call.lambda_ >= 0) =>
        /\ \A a, b \in DOMAIN ret.coo :
               (ret.coo[a][1] = ret.coo[b][1] /\ ret.coo[a][2] = ret.coo[b][2]) => a = b
        /\ \A i, j \in DOMAIN call.verts : At(ret, i, j) = At(ret, j, i)

\* compute_matrix has returned for a positive lambda_ and a mesh with an
\* edge: M has a non-zero entry off the diagonal.
C2_Witness ==
    /\ call.fn = "compute_matrix"
    /\ call.outcome = "returned"
    /\ call.lambda_ > 0
    /\ \E i, j \in DOMAIN call.verts : i # j /\ At(ret, i, j) # RatZero

\* C5: for every mesh, the matrix returned by laplacian_uniform has -1 at
\* (i, j), i # j, when i and j share an edge of at least one triangle,
\* however many triangles hold the edge and in whichever orientation, and 0
\* otherwise; the entry at (i, i) is the number of distinct neighbours of i.
C5_UniformEntries ==
    call.fn = "laplacian_uniform" =>
        \A i, j \in DOMAIN call.verts :
            /\ i # j => At(ret, i, j) = (IF Adjacent(call.faces, i, j)
                                         THEN RatInt(-1) ELSE RatZero)
            /\ At(ret, i, i) = RatInt(Cardinality({n \in DOMAIN call.verts :
                                           n # i /\ Adjacent(call.faces, i, n)}))

\* laplacian_uniform has returned for two triangles that hold the same edge
\* in opposite orientations, next to a vertex without any neighbour.
C5_Witness ==
    /\ call.fn = "laplacian_uniform"
    /\ Size(call.faces) = 2
    /\ \E i, j \in DOMAIN call.verts : \E a, b \in 0..2 :
           /\ i # j
           /\ call.faces[0][a] = i /\ call.faces[0][(a + 1) % 3] = j
           /\ call.faces[1][b] = j /\ call.faces[1][(b + 1) % 3] = i
           /\ At(ret, i, j) = RatInt(-1)
    /\ \E i \in DOMAIN call.verts : At(ret, i, i) = RatInt(2)

\* C6 as stated: whenever lambda_ < 0, compute_matrix ends in an error and
\* returns no matrix.
C6_NegativeLambdaRaises ==
    (call.fn = "compute_matrix" /\ call.lambda_ < 0) =>
        (call.outcome = "raised" /\ ret = Unset)

\* The angle term of the triangle p, a, b at its corner p: the dot product
\* of the two edges that leave p, each divided by its own length.
interior_cos(p, a, b) ==
    LET e0 == VSub(a, p)
        e1 == VSub(b, p)
        d == VDot(e0, e1)
    IN  IF NormSq(e0) * NormSq(e1) = 0 THEN [nan |-> TRUE, sgn |-> 0, sq |-> RatZero]
        ELSE [nan |-> FALSE,
              sgn |-> IF d > 0 THEN 1 ELSE IF d < 0 THEN -1 ELSE 0,
              sq |-> Rat(d * d, NormSq(e0) * NormSq(e1))]

\* C9 as stated: in compute_vertex_normals, the weight of a corner is the
\* interior angle of its own triangle at that corner: it depends on the
\* three positions of that triangle only.  (Stated for meshes whose
\* triangles have three distinct corners.)
C9_WeightIsInteriorAngle ==
    ( /\ call.fn = "compute_vertex_normals"
      /\ \A k \in DOMAIN call.faces : \A a, b \in 0..2 :
             a # b => call.faces[k][a] # call.faces[k][b] ) =>
        \A x \in DOMAIN ret : \A t \in DOMAIN ret[x] :
            LET term == ret[x][t]
                face == call.faces[term.face]
                i == term.corner
            IN  term.cos = interior_cos(call.verts[face[i]],
                                        call.verts[face[(i + 1) % 3]],
                                        call.verts[face[(i + 2) % 3]])

(***************************************************************************)
(* optimize_shape (Spec).                                                  *)
(***************************************************************************)
\* The welded source mesh the optimization starts from.
InitialWeld == remove_duplicates(v_src, f_src)

\* C7 as stated: with smooth enabled, the matrix M handed to to_differential
\* and from_differential is I + lambda_ * laplacian_cot(v_unique, f_unique)
\* when cotan is true, and I + lambda_ * laplacian_uniform(v_unique,
\* f_unique) otherwise.
C7_ModeSelectsMatrix ==
    (params.smooth /\ pc \in LoopPcs) =>
        LET L_mode == IF params.cotan
                      THEN laplacian_cot(InitialWeld.unique_verts, InitialWeld.new_faces)
                      ELSE laplacian_uniform(InitialWeld.unique_verts, InitialWeld.new_faces)
        IN  \A i, j \in DOMAIN InitialWeld.unique_verts :
                At(M, i, j) = RatAdd(IF i = j THEN RatOne ELSE RatZero,
                                     RatMul(RatInt(params.lambda_), At(L_mode, i, j)))

\* C8: with smooth enabled, M is built exactly once, before the first
\* iteration, from the initial welded source geometry, and never changes
\* afterwards; in every iteration from_differential is applied to that M and
\* to the u_unique the previous optimizer step left, and it comes before
\* the normals, the render and the optimizer step of the iteration.
C8_MatrixBuiltOnce ==
    (params.smooth /\ pc \in LoopPcs) =>
        /\ builds = 1
        /\ LET w == InitialWeld
           IN  M = system_matrix(w.unique_verts, w.new_faces, params.lambda_, params.cotan)
        /\ pc \in {"gather", "render", "step"} =>
               /\ solved = <<M, u_unique>>
               /\ events = SubSeq(<<"from_differential", "normals", "render">>, 1, Len(events))
        /\ (pc \in {"loop", "done"} /\ it > 0) =>
               events = <<"from_differential", "normals", "render", "step">>

\* The second iteration has solved for the positions, after an optimizer
\* step that changed u_unique.
C8_Witness ==
    /\ params.smooth
    /\ pc = "gather"
    /\ it = 1
    /\ builds = 1
    /\ solved = <<M, u_unique>>
    /\ u_unique # to_differential(M, InitialWeld.unique_verts)

\* C10: in every iteration, smooth or not, v_opt and n_opt have one row per
\* original source vertex, and two original vertices whose source positions
\* are equal get the same position and the same normal, in what is gathered
\* and in what is handed to the renderer.
C10_SeamsHold ==
    (pc \in {"render", "step"} \/ (pc \in {"loop", "done"} /\ it > 0)) =>
        /\ DOMAIN v_opt = DOMAIN v_src
        /\ DOMAIN n_opt = DOMAIN v_src
        /\ \A a, b \in DOMAIN v_src :
               v_src[a] = v_src[b] => (v_opt[a] = v_opt[b] /\ n_opt[a] = n_opt[b])
        /\ (pc \in {"step", "loop", "done"}) =>
               /\ DOMAIN rendered.v = DOMAIN v_src
               /\ DOMAIN rendered.n = DOMAIN v_src
               /\ \A a, b \in DOMAIN v_src :
                      v_src[a] = v_src[b] => ( /\ rendered.v[a] = rendered.v[b]
                                               /\ rendered.n[a] = rendered.n[b] )

\* A mesh with a seam has been rendered after the optimizer moved a seam
\* vertex away from its source position.
C10_Witness ==
    /\ pc = "step"
    /\ it >= 1
    /\ \E a, b \in DOMAIN v_src :
           /\ a # b
           /\ v_src[a] = v_src[b]
           /\ v_opt[a] # v_src[a]
           /\ v_opt[a] = v_opt[b]
           /\ rendered.v[a] = rendered.v[b]

====
